---- MODULE Spec2Model ----
(***************************************************************************)
(* Client-side cart / checkout / session state machines of the storefront  *)
(* (frontend/src/context/CartContext.tsx, pages/Checkout.tsx,              *)
(* context/AuthContext.tsx, api/client.ts, api/orders.ts).                 *)
(*                                                                         *)
(* JavaScript `undefined` / `null` of a string-valued field is the string  *)
(* Undefined; an optional record (totals, snapshot, order) is a sequence   *)
(* of length 0 (absent) or 1 (present).                                    *)
(***************************************************************************)
EXTENDS Integers, Sequences, FiniteSets, TLC

VARIABLES
    cart,          \* CartState of CartProvider's useReducer
    lastAction,    \* the CartAction dispatched last (type and payload)
    selQty,        \* ProductCard / ProductPage `quantity` state
    pendingSyncs,  \* syncCart calls whose upsertCart request is in flight: the
                   \* call site, the items closed over, the request sent
    lastSync,      \* how the syncCart call that ended last ended: the branch taken,
                   \* what it returned (a snapshot or undefined), whether it threw
    clearedSince,  \* clearCart has run and no upsertCart request was sent since
    storage,       \* window.localStorage["aleenas.cart"]
    server,        \* remote cart / order service
    auth,          \* AuthState of AuthProvider's useState
    authToken,     \* the bearer token of the HTTP client module
    oidc,          \* what useOidcAuth() gives: isLoading, user, error
    refreshCall,   \* where the refresh() call in progress stands
    effectDeps,    \* the oidc state the AuthProvider effect last ran for
    lastRefresh,   \* how the refresh() call that ended last ended
    lastCall,      \* the request() call made last: what it sent, how it settled
    page,          \* CheckoutPage: error and loading state, and the route shown
    attempts,      \* the handleSubmit calls made, each with where it stands
    uuid,          \* crypto.randomUUID: whether a test stubs it, keys handed out
    nav,           \* window.location, the location BrowserRouter renders, and
                   \* the sign-in redirect under way
    checkoutEffect,
                   \* CheckoutPage's sync effect while the page stays mounted:
                   \* whether its dependencies have changed since it last
                   \* ran, and the upsert requests it has issued
    verify         \* VerifyAccountPage: its state, its two refs, the link it
                   \* was opened with, the confirmAccount requests in flight

cartVars == <<cart, lastAction, selQty, pendingSyncs, lastSync, clearedSince, storage>>
authVars == <<auth, authToken, oidc, refreshCall, effectDeps, lastRefresh, lastCall>>
checkoutVars == <<page, attempts, uuid>>

vars == <<cartVars, server, authVars, checkoutVars, nav, checkoutEffect, verify>>

\* what an action of one component leaves alone
cartOnly == <<server, authVars, checkoutVars, nav, checkoutEffect, verify>>
cartAndServerOnly == <<authVars, checkoutVars, nav, checkoutEffect, verify>>
authOnly == <<cartVars, server, checkoutVars, lastCall, nav, checkoutEffect, verify>>
navOnly ==
    <<cartVars, server, checkoutVars, refreshCall, lastRefresh, lastCall, checkoutEffect, verify>>

----------------------------------------------------------------------------
(* Bounds of the model *)

\* largest quantity one cart line reaches
MaxQty == 2
\* largest number of remote carts the service creates
MaxCarts == 2
\* largest number of checkout submissions that pass validation
MaxAttempts == 2
\* largest number of confirmAccount requests followed for one page visit
MaxConfirms == 3
\* largest number of upsert requests followed for one mounted checkout page
MaxUpserts == 6

----------------------------------------------------------------------------
(* Values *)

Undefined == "undefined"

\* the payload of an action that has none; every payload is a record
NoPayload == [none |-> TRUE]

None == <<>>
Some(x) == <<x>>

Cakes == {"cake-1", "cake-2"}

\* QuantitySelector limits passed by the pages
ProductSelectorMin == 1
ProductSelectorMax == 99
CartSelectorMin == 0
CartSelectorMax == 99

\* catalog shown to the customer (menu / curated list): name, price, image
CatalogName(id) == IF id = "cake-1" THEN "Midnight Cocoa Dream" ELSE "Rose Pistachio Symphony"
CatalogPrice(id) == IF id = "cake-1" THEN 1000 ELSE 500
\* the second cake has no curated entry, hence no image
CatalogImage(id) == IF id = "cake-1" THEN "img-1" ELSE Undefined

\* CartItem built by ProductCard.handleAdd / ProductPage.handleAdd
handleAddItem(id, quantity) ==
    [id |-> id, name |-> CatalogName(id), price |-> CatalogPrice(id),
     quantity |-> quantity, imageUrl |-> CatalogImage(id),
     notes |-> Undefined, addons |-> Undefined, cartItemId |-> Undefined]

initialState ==
    [items |-> <<>>, cartId |-> Undefined, cartToken |-> Undefined,
     totals |-> None, syncing |-> FALSE]

----------------------------------------------------------------------------
(* Sequence helpers standing for Array.prototype.map / filter / find *)

FilterSeq(s, Keep(_)) == SelectSeq(s, Keep)

MapSeq(s, F(_)) == [i \in 1..Len(s) |-> F(s[i])]

HasId(items, id) == \E i \in 1..Len(items) : items[i].id = id

\* items.find(entry => entry.id === id): the first match
FindById(items, id) ==
    items[CHOOSE i \in 1..Len(items) :
            items[i].id = id /\ \A j \in 1..(i - 1) : items[j].id # id]

----------------------------------------------------------------------------
(* cartReducer, one operator per case *)

reduceRESTORE(state, payload) ==
    [items |-> payload.items, cartId |-> payload.cartId,
     cartToken |-> payload.cartToken, totals |-> payload.totals,
     syncing |-> FALSE]

\* ADD that appends without looking for an existing line
reduceADD_AlwaysAppends(state, item) ==
    [state EXCEPT !.items = Append(state.items, item), !.totals = None]

reduceADD(state, item) ==
    LET Bump(entry) ==
            IF entry.id = item.id
            THEN [entry EXCEPT !.quantity = entry.quantity + item.quantity]
            ELSE entry
        nextItems == IF HasId(state.items, item.id)
                     THEN MapSeq(state.items, Bump)
                     ELSE Append(state.items, item)
    IN  [state EXCEPT !.items = nextItems, !.totals = None]

\* REMOVE that keeps the totals of the last snapshot
reduceREMOVE_KeepsTotals(state, id) ==
    LET Keep(item) == item.id # id
    IN  [state EXCEPT !.items = FilterSeq(state.items, Keep)]

reduceREMOVE(state, id) ==
    LET Keep(item) == item.id # id
    IN  [state EXCEPT !.items = FilterSeq(state.items, Keep), !.totals = None]

\* UPDATE_QUANTITY without the `.filter((item) => item.quantity > 0)`
reduceUPDATE_QUANTITY_NoFilter(state, payload) ==
    LET SetQ(item) == IF item.id = payload.id
                      THEN [item EXCEPT !.quantity = payload.quantity]
                      ELSE item
    IN  [state EXCEPT !.items = MapSeq(state.items, SetQ), !.totals = None]

reduceUPDATE_QUANTITY(state, payload) ==
    LET SetQ(item) == IF item.id = payload.id
                      THEN [item EXCEPT !.quantity = payload.quantity]
                      ELSE item
        Positive(item) == item.quantity > 0
    IN  [state EXCEPT !.items = FilterSeq(MapSeq(state.items, SetQ), Positive),
                      !.totals = None]

reduceCLEAR(state) ==
    [items |-> <<>>, cartId |-> Undefined, cartToken |-> Undefined,
     totals |-> None, syncing |-> FALSE]

reduceSYNCING(state, flag) == [state EXCEPT !.syncing = flag]

\* APPLY_SERVER that takes the lines but not the snapshot's totals
reduceAPPLY_SERVER_KeepsTotals(state, payload) ==
    [state EXCEPT !.items = payload.mergedItems,
                  !.cartId = payload.snapshot.cartId,
                  !.cartToken = payload.snapshot.cartToken]

reduceAPPLY_SERVER(state, payload) ==
    [state EXCEPT !.items = payload.mergedItems,
                  !.cartId = payload.snapshot.cartId,
                  !.cartToken = payload.snapshot.cartToken,
                  !.totals = Some(payload.snapshot.totals)]

reduceRESET_IDENTIFIERS(state) ==
    [state EXCEPT !.cartId = Undefined, !.cartToken = Undefined, !.totals = None]

cartReducer(state, action) ==
    CASE action.type = "RESTORE" -> reduceRESTORE(state, action.payload)
      [] action.type = "ADD" -> reduceADD(state, action.payload)
      [] action.type = "REMOVE" -> reduceREMOVE(state, action.payload.id)
      [] action.type = "UPDATE_QUANTITY" -> reduceUPDATE_QUANTITY(state, action.payload)
      [] action.type = "CLEAR" -> reduceCLEAR(state)
      [] action.type = "SYNCING" -> reduceSYNCING(state, action.payload.value)
      [] action.type = "APPLY_SERVER" -> reduceAPPLY_SERVER(state, action.payload)
      [] action.type = "RESET_IDENTIFIERS" -> reduceRESET_IDENTIFIERS(state)
      [] OTHER -> state

----------------------------------------------------------------------------
(* Persistence: readStoredCart / writeStoredCart and the provider's effects *)

\* JSON.stringify(state): a property whose value is undefined is left out
\* (within an item too, where reading it back gives undefined again)
stringifyCart(state) ==
    LET present == {"items", "syncing"}
                   \cup (IF state.cartId # Undefined THEN {"cartId"} ELSE {})
                   \cup (IF state.cartToken # Undefined THEN {"cartToken"} ELSE {})
                   \cup (IF state.totals # None THEN {"totals"} ELSE {})
    IN  [k \in present |-> state[k]]

\* readStoredCart(): { ...initialState, ...JSON.parse(raw) }, or initialState
readStoredCart(store) ==
    IF store = None THEN initialState
    ELSE LET parsed == store[1]
             Merged(k) == IF k \in DOMAIN parsed THEN parsed[k] ELSE initialState[k]
         IN  [items |-> Merged("items"), cartId |-> Merged("cartId"),
              cartToken |-> Merged("cartToken"), totals |-> Merged("totals"),
              syncing |-> Merged("syncing")]

\* the effect on [state]: writeStoredCart(state), run after the state changed
persist == storage' = Some(stringifyCart(cart'))

\* the store a mount of CartProvider ends with: the restore effect reads and
\* dispatches RESTORE, the persist effect writes the state of the first
\* render; under StrictMode's development double run both run once more
\* before the dispatched actions are reduced
mountCartProvider(store, doubleRun) ==
    LET firstRead == readStoredCart(store)
        firstWrite == Some(stringifyCart(initialState))
        secondRead == readStoredCart(firstWrite)
    IN  IF doubleRun
        THEN reduceRESTORE(reduceRESTORE(initialState, firstRead), secondRead)
        ELSE reduceRESTORE(initialState, firstRead)

\* dispatch(action): the reducer applied to the store, the action remembered,
\* the new state persisted
dispatch(action) ==
    /\ cart' = cartReducer(cart, action)
    /\ lastAction' = action
    /\ persist

----------------------------------------------------------------------------
(* QuantitySelector *)

\* handleChange(delta) calls onChange(value + delta) unless out of [min, max]
handleChange(value, delta, min, max) ==
    LET next == value + delta
    IN  IF next > max THEN None
        ELSE IF next < min THEN None
        ELSE Some(next)

----------------------------------------------------------------------------
(* Initial state *)

NoAction == [type |-> "NONE", payload |-> NoPayload]

InitCart ==
    /\ cart = initialState
    /\ lastAction = NoAction
    /\ selQty = 1
    /\ pendingSyncs = {}
    /\ lastSync = [kind |-> "none", returned |-> Undefined, threw |-> FALSE]
    /\ clearedSince = FALSE
    /\ storage = Some(stringifyCart(cart))
    /\ server = [cartCount |-> 0, orders |-> <<>>]

----------------------------------------------------------------------------
(* Cart operations as the pages invoke them *)

\* ProductCard / ProductPage: the +/- buttons of the quantity selector
SelectQuantity ==
    \E delta \in {-1, 1} :
        LET next == handleChange(selQty, delta, ProductSelectorMin, ProductSelectorMax)
        IN  /\ next # None
            /\ next[1] <= MaxQty
            /\ selQty' = next[1]
            /\ UNCHANGED <<cart, lastAction, pendingSyncs, lastSync, clearedSince, storage, cartOnly>>

\* ProductCard.handleAdd / ProductPage.handleAdd: addItem(...); setQuantity(1)
addItem ==
    \E id \in Cakes :
        LET item == handleAddItem(id, selQty)
        IN  /\ \A i \in 1..Len(cart.items) :
                  cart.items[i].id = id => cart.items[i].quantity + selQty <= MaxQty
            /\ dispatch([type |-> "ADD", payload |-> item])
            /\ selQty' = 1
            /\ UNCHANGED <<pendingSyncs, lastSync, clearedSince, cartOnly>>

\* CartPage: the Remove button of a line
removeItem ==
    \E i \in 1..Len(cart.items) :
        /\ dispatch([type |-> "REMOVE", payload |-> [id |-> cart.items[i].id]])
        /\ UNCHANGED <<selQty, pendingSyncs, lastSync, clearedSince, cartOnly>>

\* removeItem(id) as a consumer of the cart context may call it, for any id
removeItemOf(id) ==
    /\ dispatch([type |-> "REMOVE", payload |-> [id |-> id]])
    /\ UNCHANGED <<selQty, pendingSyncs, lastSync, clearedSince, cartOnly>>

RemoveAnyItem == \E id \in Cakes : removeItemOf(id)

\* CartPage: the +/- buttons of a line's quantity selector
updateQuantity ==
    \E i \in 1..Len(cart.items), delta \in {-1, 1} :
        LET next == handleChange(cart.items[i].quantity, delta,
                                 CartSelectorMin, CartSelectorMax)
        IN  /\ next # None
            /\ next[1] <= MaxQty
            /\ dispatch([type |-> "UPDATE_QUANTITY",
                         payload |-> [id |-> cart.items[i].id, quantity |-> next[1]]])
            /\ UNCHANGED <<selQty, pendingSyncs, lastSync, clearedSince, cartOnly>>

\* the page is reloaded: the in-memory store is gone with its requests, the
\* provider mounts again (main.tsx renders it inside StrictMode, whose double
\* run of effects happens in development builds only)
Reload ==
    \E doubleRun \in BOOLEAN :
        LET restored == mountCartProvider(storage, doubleRun)
        IN  /\ cart' = restored
            /\ lastAction' = [type |-> "RESTORE", payload |-> [doubleRun |-> doubleRun]]
            /\ persist
            /\ selQty' = 1
            /\ pendingSyncs' = {}
            /\ lastSync' = [kind |-> "none", returned |-> Undefined, threw |-> FALSE]
            /\ clearedSince' = FALSE
            /\ UNCHANGED cartOnly

\* CartPage: the Clear cart button
clearCart ==
    /\ cart.items # <<>>
    /\ dispatch([type |-> "CLEAR", payload |-> NoPayload])
    /\ clearedSince' = TRUE
    /\ UNCHANGED <<selQty, pendingSyncs, lastSync, cartOnly>>

----------------------------------------------------------------------------
(* Remote cart resource: POST /cart (the service itself is not part of the *)
(* frontend; its contract is the one the frontend's types declare)         *)

ServerPrice(id) == IF id = "cake-1" THEN 1000 ELSE 600
ServerShipping == 50
ServerTaxes(subtotal) == subtotal \div 20

CartIdOf(n) == "cart-" \o ToString(n)
CartTokenOf(n) == "tok-" \o ToString(n)

RECURSIVE SumLineTotals(_)
SumLineTotals(lines) ==
    IF lines = <<>> THEN 0 ELSE Head(lines).line_total + SumLineTotals(Tail(lines))

\* the cart number a request addresses: the cart of its token, else a new one
ServerCartNo(cartCount, request) ==
    IF \E n \in 1..cartCount : CartTokenOf(n) = request.cart_token
    THEN CHOOSE n \in 1..cartCount : CartTokenOf(n) = request.cart_token
    ELSE cartCount + 1

\* ServerCartResponse for a request; lines of sold-out cakes are dropped
ServerCartResponse(cartCount, request, soldOut, withName) ==
    LET Available(item) == item.cake_id \notin soldOut
        Line(item) ==
            [cart_item_id |-> "ci-" \o item.cake_id,
             cake_id |-> item.cake_id,
             name |-> IF withName THEN CatalogName(item.cake_id) ELSE Undefined,
             quantity |-> item.quantity,
             price_each |-> ServerPrice(item.cake_id),
             line_total |-> ServerPrice(item.cake_id) * item.quantity]
        lines == MapSeq(SelectSeq(request.items, Available), Line)
        subtotal == SumLineTotals(lines)
        n == ServerCartNo(cartCount, request)
    IN  [cart_id |-> CartIdOf(n),
         customer_id |-> request.customer_id,
         cart_token |-> CartTokenOf(n),
         items |-> lines,
         totals |-> [subtotal |-> subtotal, taxes |-> ServerTaxes(subtotal),
                     shipping |-> ServerShipping,
                     total |-> subtotal + ServerTaxes(subtotal) + ServerShipping]]

\* the number of carts the service has created, after answering a request
ServerCartCount(cartCount, request) ==
    IF ServerCartNo(cartCount, request) > cartCount THEN cartCount + 1 ELSE cartCount

----------------------------------------------------------------------------
(* Transport mapper (api/orders.ts) *)

mapCartLine(item) ==
    [cartItemId |-> item.cart_item_id, cakeId |-> item.cake_id, name |-> item.name,
     quantity |-> item.quantity, priceEach |-> item.price_each,
     lineTotal |-> item.line_total]

mapTotals(totals) ==
    [subtotal |-> totals.subtotal, taxes |-> totals.taxes,
     shipping |-> totals.shipping, total |-> totals.total]

mapCart(payload) ==
    [cartId |-> payload.cart_id, cartToken |-> payload.cart_token,
     customerId |-> payload.customer_id,
     items |-> MapSeq(payload.items, mapCartLine),
     totals |-> mapTotals(payload.totals)]

normalizeCartPayload(payload) ==
    LET Wire(item) == [cake_id |-> item.cakeId, quantity |-> item.quantity,
                       price_each |-> item.priceEach]
    IN  [customer_id |-> payload.customerId, cart_token |-> payload.cartToken,
         items |-> MapSeq(payload.items, Wire)]

----------------------------------------------------------------------------
(* syncCart *)

\* the CartUpsertPayload syncCart builds from the items and token it closes over
syncCartPayload(items, cartToken, customerId) ==
    LET Line(item) == [cakeId |-> item.id, quantity |-> item.quantity,
                       priceEach |-> item.price]
    IN  [customerId |-> customerId, cartToken |-> cartToken,
         items |-> MapSeq(items, Line)]

\* one element of mergedItems, with the client-only fields not carried over
mergeServerItem_DropClientFields(serverItem, items) ==
    LET known == HasId(items, serverItem.cakeId)
        existing == FindById(items, serverItem.cakeId)
    IN  [id |-> serverItem.cakeId,
         name |-> IF serverItem.name \notin {Undefined, ""} THEN serverItem.name
                  ELSE IF known /\ existing.name \notin {Undefined, ""}
                       THEN existing.name ELSE "",
         price |-> serverItem.priceEach,
         quantity |-> serverItem.quantity,
         imageUrl |-> Undefined,
         notes |-> Undefined,
         addons |-> Undefined,
         cartItemId |-> serverItem.cartItemId]

\* one element of mergedItems
mergeServerItem(serverItem, items) ==
    LET known == HasId(items, serverItem.cakeId)
        existing == FindById(items, serverItem.cakeId)
    IN  [id |-> serverItem.cakeId,
         name |-> IF serverItem.name \notin {Undefined, ""} THEN serverItem.name
                  ELSE IF known /\ existing.name \notin {Undefined, ""}
                       THEN existing.name ELSE "",
         price |-> serverItem.priceEach,
         quantity |-> serverItem.quantity,
         imageUrl |-> IF known THEN existing.imageUrl ELSE Undefined,
         notes |-> IF known THEN existing.notes ELSE Undefined,
         addons |-> IF known THEN existing.addons ELSE Undefined,
         cartItemId |-> serverItem.cartItemId]

mergedItemsOf(snapshot, items) ==
    [j \in 1..Len(snapshot.items) |-> mergeServerItem(snapshot.items[j], items)]

\* the empty-cart branch with RESET_IDENTIFIERS left out
syncCartEmpty_NoReset(state) == reduceSYNCING(state, FALSE)

\* the store after the empty-cart branch: RESET_IDENTIFIERS, SYNCING false
syncCartEmpty(state) ==
    cartReducer(cartReducer(state, [type |-> "RESET_IDENTIFIERS", payload |-> NoPayload]),
                [type |-> "SYNCING", payload |-> [value |-> FALSE]])

\* the store after a resolved upsert: APPLY_SERVER, then SYNCING false
syncCartApply(state, snapshot, items) ==
    cartReducer(cartReducer(state,
                    [type |-> "APPLY_SERVER",
                     payload |-> [snapshot |-> snapshot,
                                  mergedItems |-> mergedItemsOf(snapshot, items)]]),
                [type |-> "SYNCING", payload |-> [value |-> FALSE]])

\* a catch block that also drops the cart
syncCartCatch_Clears(state) == reduceCLEAR(state)

\* the store after a rejected upsert: catch logs, finally SYNCING false
syncCartCatch(state) ==
    cartReducer(state, [type |-> "SYNCING", payload |-> [value |-> FALSE]])

\* syncCart(options), called from `caller`, up to its first await; a call site
\* has one call in flight at a time
syncCart(caller, customerId) ==
    IF Len(cart.items) = 0
    THEN /\ cart' = syncCartEmpty(cart)
         /\ lastAction' = [type |-> "SYNCING", payload |-> [value |-> FALSE]]
         /\ lastSync' = [kind |-> "empty", returned |-> Undefined, threw |-> FALSE]
         /\ persist
         /\ UNCHANGED <<pendingSyncs, clearedSince>>
    ELSE /\ \A call \in pendingSyncs : call.caller # caller
         /\ dispatch([type |-> "SYNCING", payload |-> [value |-> TRUE]])
         /\ pendingSyncs' = pendingSyncs \cup
                {[caller |-> caller, items |-> cart.items,
                  request |-> normalizeCartPayload(
                      syncCartPayload(cart.items, cart.cartToken, customerId))]}
         /\ clearedSince' = FALSE
         /\ UNCHANGED lastSync

\* the upsertCart promise of `call` resolves with the service's snapshot
syncCartResolved(call, soldOut, withName) ==
    LET response == ServerCartResponse(server.cartCount, call.request, soldOut, withName)
        snapshot == mapCart(response)
    IN  /\ ServerCartNo(server.cartCount, call.request) <= MaxCarts
        /\ server' = [server EXCEPT
                        !.cartCount = ServerCartCount(server.cartCount, call.request)]
        /\ cart' = syncCartApply(cart, snapshot, call.items)
        /\ lastAction' = [type |-> "SYNCING", payload |-> [value |-> FALSE]]
        /\ lastSync' = [kind |-> "ok", returned |-> "snapshot", threw |-> FALSE]
        /\ persist
        /\ UNCHANGED clearedSince
        /\ pendingSyncs' = pendingSyncs \ {call}

\* the upsertCart promise of `call` rejects (network failure or non-2xx)
syncCartRejected(call) ==
    /\ cart' = syncCartCatch(cart)
    /\ lastAction' = [type |-> "SYNCING", payload |-> [value |-> FALSE]]
    /\ lastSync' = [kind |-> "failed", returned |-> Undefined, threw |-> FALSE]
    /\ persist
    /\ UNCHANGED clearedSince
    /\ pendingSyncs' = pendingSyncs \ {call}

\* the signed-in customer of the checkout page (user?.id)
CustomerId == "user-1"

\* lines the service may leave out of a snapshot: the second cake sells out
SoldOutChoices == {{}, {"cake-2"}}

\* CheckoutPage's effect: void syncCart({ customerId: user?.id })
EffectSyncCart ==
    /\ syncCart("effect", CustomerId)
    /\ UNCHANGED <<selQty, cartOnly>>

UpsertResolves ==
    \E call \in pendingSyncs : \E soldOut \in SoldOutChoices, withName \in BOOLEAN :
        /\ call.caller = "effect"
        /\ syncCartResolved(call, soldOut, withName)
        /\ UNCHANGED <<selQty, cartAndServerOnly>>

UpsertRejects ==
    \E call \in pendingSyncs :
        /\ call.caller = "effect"
        /\ syncCartRejected(call)
        /\ UNCHANGED <<selQty, cartOnly>>

\* CheckoutPage mounted: the effect is due at the mount
InitCheckoutEffect == checkoutEffect = [due |-> TRUE, upserts |-> 0]

\* the effect of a page that stays mounted: it runs at the mount and after a
\* render in which syncCart, a useCallback on [items, cartToken], is a new
\* function; with an empty cart the page's other effect leaves for /cart
CheckoutEffectRuns ==
    /\ page.route = "/checkout"
    /\ checkoutEffect.due
    /\ checkoutEffect.upserts < MaxUpserts
    /\ syncCart("effect", CustomerId)
    /\ checkoutEffect' = [due |-> FALSE,
                          upserts |-> IF cart.items = <<>> THEN checkoutEffect.upserts
                                      ELSE checkoutEffect.upserts + 1]
    /\ page' = IF cart.items = <<>> THEN [page EXCEPT !.route = "/cart"] ELSE page
    /\ UNCHANGED <<selQty, server, authVars, attempts, uuid, nav, verify>>

\* the request of the mounted page's effect resolves: APPLY_SERVER installs
\* mergedItems, a new array, so the page renders with a new syncCart
CheckoutUpsertResolves ==
    \E call \in pendingSyncs : \E soldOut \in SoldOutChoices, withName \in BOOLEAN :
        /\ call.caller = "effect"
        /\ syncCartResolved(call, soldOut, withName)
        /\ checkoutEffect' = [checkoutEffect EXCEPT !.due = TRUE]
        /\ UNCHANGED <<selQty, authVars, checkoutVars, nav, verify>>

\* the request of the mounted page's effect fails: SYNCING false keeps the
\* items array and the token, syncCart stays the function it was
CheckoutUpsertRejects ==
    \E call \in pendingSyncs :
        /\ call.caller = "effect"
        /\ syncCartRejected(call)
        /\ UNCHANGED <<selQty, server, authVars, checkoutVars, nav, checkoutEffect, verify>>

----------------------------------------------------------------------------
(* HTTP client (api/auth.ts): the Error a failed request() rejects with *)

\* a || b of JavaScript, on strings
orElse(value, fallback) == IF value \in {Undefined, ""} THEN fallback ELSE value

\* the headers of a call that passes none in its options
NoHeaders == [ContentType |-> Undefined, Authorization |-> Undefined,
              IdempotencyKey |-> Undefined]

\* the wrapper adding the bearer header whatever skipAuth says
requestHeaders_IgnoresSkipAuth(optionHeaders, skipAuth, token) ==
    [optionHeaders EXCEPT
        !.ContentType = orElse(@, "application/json"),
        !.Authorization = IF token \notin {Undefined, ""}
                          THEN "Bearer " \o token ELSE @]

\* the headers request() sends for a JSON body: those of options.headers,
\* Content-Type unless given, Authorization unless skipAuth or no token is set
requestHeaders(optionHeaders, skipAuth, token) ==
    [optionHeaders EXCEPT
        !.ContentType = orElse(@, "application/json"),
        !.Authorization = IF ~skipAuth /\ token \notin {Undefined, ""}
                          THEN "Bearer " \o token ELSE @]

\* ways a request fails: fetch itself rejects, or the response is not ok, with
\* or without a `message` in its body, with or without a status text
RequestFailures ==
    {[kind |-> "network", bodyMessage |-> Undefined, statusText |-> ""],
     [kind |-> "http", bodyMessage |-> "Order unavailable", statusText |-> "Conflict"],
     [kind |-> "http", bodyMessage |-> Undefined, statusText |-> "Bad Gateway"],
     [kind |-> "http", bodyMessage |-> Undefined, statusText |-> ""]}

\* the message of the Error: fetch's own TypeError, or the one request() builds
requestErrorMessage(failure) ==
    IF failure.kind = "network" THEN "Failed to fetch"
    ELSE orElse(failure.bodyMessage, orElse(failure.statusText, "Request failed"))

\* responses a server may give: status, status text (empty over HTTP/2), body
Statuses == {200, 204, 404, 500}
StatusTexts == {"", "Error"}
MessageJson == "{\"message\":\"Order not found\"}"
OrderJson == "{\"order_id\":\"order-1\"}"
BodyTexts == {"", MessageJson, OrderJson, "<html>"}
Responses ==
    [status : Statuses, statusText : StatusTexts, text : BodyTexts]

\* JSON.parse(text) for the bodies above; it throws on anything else
JsonParse(text) ==
    CASE text = MessageJson ->
            [valid |-> TRUE, message |-> "Order not found", order_id |-> Undefined]
      [] text = OrderJson ->
            [valid |-> TRUE, message |-> Undefined, order_id |-> "order-1"]
      [] OTHER -> [valid |-> FALSE, message |-> Undefined, order_id |-> Undefined]

\* parseResponse(response, true): undefined for an empty body, the parsed
\* object, or the text itself when it is not JSON
parseResponse(text) ==
    IF text = ""
    THEN [type |-> "undefined", message |-> Undefined, order_id |-> Undefined,
          text |-> Undefined]
    ELSE IF JsonParse(text).valid
    THEN [type |-> "object", message |-> JsonParse(text).message,
          order_id |-> JsonParse(text).order_id, text |-> Undefined]
    ELSE [type |-> "string", message |-> Undefined, order_id |-> Undefined,
          text |-> text]

\* response.ok
responseOk(status) == status \in 200..299

\* a wrapper that lets client errors through as values
requestOutcome_ThrowsOnServerErrorOnly(response) ==
    LET data == parseResponse(response.text)
    IN  IF response.status >= 500
        THEN [kind |-> "throws", status |-> response.status, data |-> data,
              message |-> requestErrorMessage(
                  [kind |-> "http", bodyMessage |-> data.message,
                   statusText |-> response.statusText])]
        ELSE [kind |-> "returns", status |-> 0, data |-> data, message |-> Undefined]

\* request() from the response on: throws the annotated Error, or returns data
requestOutcome(response) ==
    LET data == parseResponse(response.text)
    IN  IF ~responseOk(response.status)
        THEN [kind |-> "throws", status |-> response.status, data |-> data,
              message |-> requestErrorMessage(
                  [kind |-> "http", bodyMessage |-> data.message,
                   statusText |-> response.statusText])]
        ELSE [kind |-> "returns", status |-> 0, data |-> data, message |-> Undefined]

NoOutcome == [kind |-> "none", status |-> 0, data |-> parseResponse(""),
              message |-> Undefined]

NoCall == [state |-> "none", skipAuth |-> FALSE, optionHeaders |-> NoHeaders,
           headers |-> NoHeaders, outcome |-> NoOutcome]

\* headers a caller may pass in options.headers
OptionHeaders ==
    {[NoHeaders EXCEPT !.Authorization = a] : a \in {Undefined, "Basic abc"}}

\* request(path, method, body, options) up to `await fetch(...)`; of the
\* calls in flight the one made last is followed
IssueRequest ==
    \E skipAuth \in BOOLEAN, optionHeaders \in OptionHeaders :
        /\ lastCall' = [state |-> "sent", skipAuth |-> skipAuth,
                        optionHeaders |-> optionHeaders,
                        headers |-> requestHeaders(optionHeaders, skipAuth, authToken),
                        outcome |-> NoOutcome]
        /\ UNCHANGED <<auth, authToken, oidc, refreshCall, effectDeps, lastRefresh,
                       cartVars, server, checkoutVars, nav, checkoutEffect, verify>>

\* fetch resolves with `response`; the rest of request() runs
responseArrives(response) ==
    /\ lastCall.state = "sent"
    /\ lastCall' = [lastCall EXCEPT !.state = "settled",
                                    !.outcome = requestOutcome(response)]
    /\ UNCHANGED <<auth, authToken, oidc, refreshCall, effectDeps, lastRefresh,
                   cartVars, server, checkoutVars, nav, checkoutEffect, verify>>

ResponseArrives == \E response \in Responses : responseArrives(response)

\* fetch rejects: request() rejects with fetch's TypeError
FetchRejects ==
    /\ lastCall.state = "sent"
    /\ lastCall' = [lastCall EXCEPT
            !.state = "settled",
            !.outcome = [kind |-> "throws", status |-> 0, data |-> parseResponse(""),
                         message |-> requestErrorMessage(
                             [kind |-> "network", bodyMessage |-> Undefined,
                              statusText |-> ""])]]
    /\ UNCHANGED <<auth, authToken, oidc, refreshCall, effectDeps, lastRefresh,
                   cartVars, server, checkoutVars, nav, checkoutEffect, verify>>

----------------------------------------------------------------------------
(* Session bridge (context/AuthContext.tsx) and the HTTP client's token *)

\* users the identity provider library can hand over (null is None):
\* a usable one, the same with a renewed token, one whose profile has no
\* string `sub`, one without access token, one without profile
OidcUsers ==
    {[profile |-> TRUE, access_token |-> "at-1", sub |-> "user-1"],
     [profile |-> TRUE, access_token |-> "at-2", sub |-> "user-1"],
     [profile |-> TRUE, access_token |-> "at-1", sub |-> Undefined],
     [profile |-> TRUE, access_token |-> "", sub |-> "user-1"],
     [profile |-> FALSE, access_token |-> "at-1", sub |-> "user-1"]}

\* buildSession without the check of the access token
buildSession_NoTokenCheck(user) ==
    IF user = None THEN None
    ELSE IF ~user[1].profile THEN None
    ELSE Some([tokens |-> [accessToken |-> user[1].access_token],
               user |-> [id |-> IF user[1].sub # Undefined THEN user[1].sub
                                 ELSE user[1].access_token]])

\* buildSession(user): None when there is no user, no profile or no access token
buildSession(user) ==
    IF user = None THEN None
    ELSE IF ~user[1].profile THEN None
    ELSE IF user[1].access_token = "" THEN None
    ELSE Some([tokens |-> [accessToken |-> user[1].access_token],
               user |-> [id |-> IF user[1].sub # Undefined THEN user[1].sub
                                 ELSE user[1].access_token]])

initialAuthState ==
    [initializing |-> TRUE, loading |-> FALSE, isAuthenticated |-> FALSE,
     user |-> None, tokens |-> None]

\* setAuthToken(token)
setAuthToken(token) == authToken' = token

InitAuth ==
    /\ auth = initialAuthState
    /\ authToken = Undefined
    /\ oidc = [isLoading |-> TRUE, user |-> None, error |-> FALSE]
    /\ refreshCall = "idle"
    /\ effectDeps = [isLoading |-> TRUE, user |-> None, error |-> FALSE]
    /\ lastRefresh = [outcome |-> "none", returned |-> Undefined]
    /\ lastCall = NoCall

\* the effect with setAuthToken(null) left out of its signed-out branch
oidcEffect_KeepsToken(o) ==
    IF o.isLoading THEN UNCHANGED <<auth, authToken>>
    ELSE LET session == buildSession(o.user)
         IN  IF session # None
             THEN /\ setAuthToken(session[1].tokens.accessToken)
                  /\ auth' = [initializing |-> FALSE, loading |-> FALSE,
                              isAuthenticated |-> TRUE,
                              user |-> Some(session[1].user),
                              tokens |-> Some(session[1].tokens)]
             ELSE /\ UNCHANGED authToken
                  /\ auth' = [initializing |-> FALSE, loading |-> FALSE,
                              isAuthenticated |-> FALSE,
                              user |-> None, tokens |-> None]

\* the effect on [oidc.isLoading, oidc.user, oidc.error], for the oidc state given
oidcEffect(o) ==
    IF o.isLoading THEN UNCHANGED <<auth, authToken>>
    ELSE LET session == buildSession(o.user)
         IN  IF session # None
             THEN /\ setAuthToken(session[1].tokens.accessToken)
                  /\ auth' = [initializing |-> FALSE, loading |-> FALSE,
                              isAuthenticated |-> TRUE,
                              user |-> Some(session[1].user),
                              tokens |-> Some(session[1].tokens)]
             ELSE /\ setAuthToken(Undefined)
                  /\ auth' = [initializing |-> FALSE, loading |-> FALSE,
                              isAuthenticated |-> FALSE,
                              user |-> None, tokens |-> None]

\* the library finishes loading, loads or unloads a user, or reports an error
OidcChanges ==
    \E user \in {None} \cup {Some(u) : u \in OidcUsers}, error \in BOOLEAN :
        LET o == [isLoading |-> FALSE, user |-> user, error |-> error]
        IN  /\ o # oidc
            /\ oidc' = o
            /\ UNCHANGED <<auth, authToken, refreshCall, effectDeps, lastRefresh, authOnly>>

\* the provider has re-rendered with changed dependencies: the effect runs
AuthEffect ==
    /\ effectDeps # oidc
    /\ effectDeps' = oidc
    /\ oidcEffect(oidc)
    /\ UNCHANGED <<oidc, refreshCall, lastRefresh, authOnly>>

\* withLoading(action) up to the await of the redirect: loading true
withLoadingStart ==
    /\ ~auth.loading
    /\ auth' = [auth EXCEPT !.loading = TRUE]
    /\ UNCHANGED <<authToken, oidc, refreshCall, effectDeps, lastRefresh, authOnly>>

\* withLoading's finally, when the redirect promise settles: loading false
withLoadingEnd ==
    /\ auth.loading
    /\ auth' = [auth EXCEPT !.loading = FALSE]
    /\ UNCHANGED <<authToken, oidc, refreshCall, effectDeps, lastRefresh, authOnly>>

\* refresh() up to `await oidc.signinSilent()`
refreshStart ==
    /\ refreshCall = "idle"
    /\ refreshCall' = "signinSilent"
    /\ UNCHANGED <<auth, authToken, oidc, effectDeps, lastRefresh, authOnly>>

\* the failure path with setAuthToken(null) left out
refreshClear_KeepsToken(a) ==
    /\ UNCHANGED authToken
    /\ auth' = [a EXCEPT !.isAuthenticated = FALSE, !.user = None, !.tokens = None]

\* the failure path after removeUser: setAuthToken(null), setState(cleared)
refreshClear(a) ==
    /\ setAuthToken(Undefined)
    /\ auth' = [a EXCEPT !.isAuthenticated = FALSE, !.user = None, !.tokens = None]

\* signinSilent resolves with `user`, which the library has loaded if there is one
signinSilentResolves ==
    \E user \in {None} \cup {Some(u) : u \in OidcUsers} :
        LET session == buildSession(user)
        IN  /\ refreshCall = "signinSilent"
            /\ oidc' = [oidc EXCEPT !.user = IF user = None THEN @ ELSE user]
            /\ IF session # None
               THEN /\ setAuthToken(session[1].tokens.accessToken)
                    /\ auth' = [auth EXCEPT !.isAuthenticated = TRUE,
                                            !.user = Some(session[1].user),
                                            !.tokens = Some(session[1].tokens)]
                    /\ refreshCall' = "idle"
                    /\ lastRefresh' = [outcome |-> "renewed",
                                       returned |-> session[1].tokens.accessToken]
               ELSE /\ refreshCall' = "removeUser"
                    /\ UNCHANGED <<auth, authToken, lastRefresh>>
            /\ UNCHANGED <<effectDeps, authOnly>>

\* signinSilent rejects: the catch logs, the call goes on to removeUser
signinSilentRejects ==
    /\ refreshCall = "signinSilent"
    /\ refreshCall' = "removeUser"
    /\ UNCHANGED <<auth, authToken, oidc, effectDeps, lastRefresh, authOnly>>

\* `await oidc.removeUser()` resolves; the rest of refresh() runs
removeUserResolves ==
    /\ refreshCall = "removeUser"
    /\ oidc' = [oidc EXCEPT !.user = None]
    /\ refreshClear(auth)
    /\ refreshCall' = "idle"
    /\ lastRefresh' = [outcome |-> "failed", returned |-> Undefined]
    /\ UNCHANGED <<effectDeps, authOnly>>

----------------------------------------------------------------------------
(* Sign-in redirect and its callback (context/AuthContext.tsx, main.tsx, *)
(* pages/AuthCallback.tsx)                                                 *)

\* a location: pathname, search and hash
Loc(pathname, search, hash) ==
    [pathname |-> pathname, search |-> search, hash |-> hash]

\* the locations a visitor reaches inside the application
AppLocations ==
    {Loc(p, q, h) : p \in {"/menu", "/cart", "/checkout"},
                    q \in {"", "?ref=home"}, h \in {"", "#top"}}

\* the queries the identity provider appends to redirect_uri: the
\* authorization code, the error of an unconfirmed account, another error
CodeSearch == "?code=abc&state=xyz"
NotConfirmedSearch ==
    "?error=access_denied&error_description=User+is+not+confirmed.&state=xyz"
DeniedSearch == "?error=access_denied&error_description=Denied&state=xyz"
CallbackSearches == {CodeSearch, NotConfirmedSearch, DeniedSearch}

Locations ==
    AppLocations
        \cup {Loc("/auth/callback", q, "") : q \in CallbackSearches}
        \cup {Loc("/verify", "", ""), Loc("/", "", "")}

\* getReturnPath(): pathname, search and hash of window.location in one string
getReturnPath(location) == location.pathname \o location.search \o location.hash

\* the location a URL string resolves to (history.replaceState, navigate)
parseUrl(url) == CHOOSE l \in Locations : getReturnPath(l) = url

\* new URL(href).searchParams.get(name) for the parameters the page reads
searchParams(search) ==
    [error |-> IF search \in {NotConfirmedSearch, DeniedSearch}
               THEN "access_denied" ELSE Undefined,
     error_description |->
         IF search = NotConfirmedSearch THEN "User is not confirmed."
         ELSE IF search = DeniedSearch THEN "Denied" ELSE Undefined,
     username |-> Undefined,
     from |-> Undefined]

\* String.prototype.toLowerCase on the descriptions above
toLowerCase(text) ==
    IF text = "User is not confirmed." THEN "user is not confirmed."
    ELSE IF text = "Denied" THEN "denied" ELSE text

\* text.includes("not confirmed")
includesNotConfirmed(text) == text = "user is not confirmed."

\* what AuthCallbackPage's effect does for the query it is mounted with:
\* navigate to /verify at once, or set a timer for nextPath
AuthCallbackEffect(search) ==
    LET params == searchParams(search)
        errorDescription == toLowerCase(orElse(params.error_description, ""))
    IN  IF params.error # Undefined /\ includesNotConfirmed(errorDescription)
        THEN [navigate |-> "/verify", timer |-> Undefined]
        ELSE [navigate |-> Undefined,
              timer |-> IF params.from # Undefined THEN params.from ELSE "/menu"]

\* handleSigninCallback(user): the URL window.history.replaceState is given
handleSigninCallback(userState) ==
    parseUrl(orElse(userState.returnPath, "/menu"))

NoSignin == [returnPath |-> Undefined]

InitNav ==
    nav = [stage |-> "app", window |-> Loc("/menu", "", ""),
           router |-> Loc("/menu", "", ""), via |-> "none",
           startedAt |-> Loc("/menu", "", ""), state |-> NoSignin,
           screen_hint |-> Undefined, timer |-> Undefined,
           signinCallback |-> "none"]

\* a <Link> or navigate() of the application: the router pushes the location
\* to the history and renders it
Navigate ==
    \E l \in AppLocations :
        /\ nav.stage # "idp"
        /\ nav.timer = Undefined
        /\ nav.router.pathname # "/auth/callback"
        /\ l # nav.router
        /\ nav' = [nav EXCEPT !.stage = "app", !.window = l, !.router = l,
                              !.via = "none", !.startedAt = l]
        /\ UNCHANGED <<auth, authToken, oidc, effectDeps, navOnly>>

\* oidc.signinRedirect(args) inside withLoading: loading is set, the state
\* is stored and the browser leaves for the identity provider
signinRedirect(via, screen_hint) ==
    /\ nav.stage # "idp"
    /\ nav.timer = Undefined
    /\ nav.router.pathname # "/auth/callback"
    /\ auth' = [auth EXCEPT !.loading = TRUE]
    /\ nav' = [nav EXCEPT !.stage = "idp", !.via = via,
                          !.startedAt = nav.window,
                          !.state = [returnPath |-> getReturnPath(nav.window)],
                          !.screen_hint = screen_hint,
                          !.signinCallback = "none"]
    /\ UNCHANGED <<authToken, oidc, effectDeps, navOnly>>

signIn == signinRedirect("signIn", Undefined)

signUp == signinRedirect("signUp", "signup")

\* the identity provider redirects to redirect_uri: the application is
\* loaded anew at /auth/callback, AuthCallbackPage's effect runs (a second
\* run in a development build clears the first timer and sets the same one),
\* and the provider starts signinCallback() on the URL it is loaded with
IdpRedirectsBack ==
    \E search \in CallbackSearches :
        LET effect == AuthCallbackEffect(search)
            loaded == Loc("/auth/callback", search, "")
            shown == IF effect.navigate # Undefined
                     THEN parseUrl(effect.navigate) ELSE loaded
        IN  /\ nav.stage = "idp"
            /\ nav' = [nav EXCEPT !.stage = "callback", !.window = shown,
                                  !.router = shown, !.timer = effect.timer,
                                  !.signinCallback =
                                      IF search = CodeSearch THEN "code" ELSE "error"]
            /\ auth' = initialAuthState
            /\ authToken' = Undefined
            /\ oidc' = [isLoading |-> TRUE, user |-> None, error |-> FALSE]
            /\ effectDeps' = [isLoading |-> TRUE, user |-> None, error |-> FALSE]
            /\ UNCHANGED navOnly

\* the timer of AuthCallbackPage fires: navigate(nextPath, {replace: true})
CallbackTimerFires ==
    /\ nav.timer # Undefined
    /\ nav' = [nav EXCEPT !.window = parseUrl(nav.timer),
                          !.router = parseUrl(nav.timer),
                          !.timer = Undefined]
    /\ UNCHANGED <<auth, authToken, oidc, effectDeps, navOnly>>

\* signinCallback() resolves with the user: onSigninCallback replaces the
\* history entry, which the router does not listen to, and the user is loaded
SigninCallbackResolves ==
    \E user \in {u \in OidcUsers : buildSession(Some(u)) # None} :
        /\ nav.signinCallback = "code"
        /\ nav' = [nav EXCEPT !.window = handleSigninCallback(nav.state),
                              !.signinCallback = "done"]
        /\ oidc' = [isLoading |-> FALSE, user |-> Some(user), error |-> FALSE]
        /\ UNCHANGED <<auth, authToken, effectDeps, navOnly>>

\* signinCallback() rejects: the library reports the error and calls nothing
SigninCallbackRejects ==
    /\ nav.signinCallback = "error"
    /\ nav' = [nav EXCEPT !.signinCallback = "failed"]
    /\ oidc' = [isLoading |-> FALSE, user |-> None, error |-> TRUE]
    /\ UNCHANGED <<auth, authToken, effectDeps, navOnly>>

----------------------------------------------------------------------------
(* VerifyAccountPage (pages/VerifyAccount.tsx) *)

\* what the page leaves alone
verifyOnly == <<cartVars, server, authVars, checkoutVars, nav, checkoutEffect>>

\* user names and codes a link carries or a visitor types
Usernames == {"", " ", "ann", " ann "}
Codes == {"", "123456", " 123456 "}

\* String.prototype.trim on the strings above
trim(text) ==
    CASE text = " " -> ""
      [] text = " ann " -> "ann"
      [] text = " 123456 " -> "123456"
      [] OTHER -> text

NotVerifiedYet ==
    "Your account is not verified yet. Enter the verification code sent to your email to finish signing up."
NoCodeInLink == "We couldn't find a verification code in this link."
VerificationFailed ==
    "Verification failed. Please double-check the details and try again."

\* the page as rendered first, for the link and router state it is opened with
NewVerifyPage(username, code, stateError) ==
    [mounted |-> FALSE, status |-> "idle", error |-> Undefined,
     usernameInput |-> "", isSubmittingRef |-> FALSE, autoTriggeredRef |-> FALSE,
     usernameFromParams |-> username, codeFromParams |-> code,
     stateError |-> stateError, inFlight |-> 0, sent |-> 0, autoTriggers |-> 0,
     request |-> [username |-> Undefined, code |-> Undefined]]

\* the page not visited
InitVerify == verify = NewVerifyPage("", "", Undefined)

\* the page opened from a link, or by AuthCallbackPage with an error
VisitVerify ==
    verify \in {NewVerifyPage(u, c, e) :
                    u \in Usernames, c \in Codes, e \in {Undefined, NotVerifiedYet}}

cleanCode(v) == trim(v.codeFromParams)

\* attemptConfirm without the check of isSubmittingRef
attemptConfirm_NoGuard(v, username, code) ==
    [v EXCEPT !.isSubmittingRef = TRUE, !.status = "submitting",
              !.error = Undefined, !.inFlight = @ + 1, !.sent = @ + 1,
              !.request = [username |-> username, code |-> code]]

\* attemptConfirm(username, code) up to `await confirmAccount(...)`
attemptConfirm(v, username, code) ==
    IF v.isSubmittingRef THEN v
    ELSE [v EXCEPT !.isSubmittingRef = TRUE, !.status = "submitting",
                   !.error = Undefined, !.inFlight = @ + 1, !.sent = @ + 1,
                   !.request = [username |-> username, code |-> code]]

\* the first commit: the effect on location.state shows the error handed
\* over, the next one copies the user name of the link into the input; the
\* auto-trigger effect of this render still sees an empty input
VerifyPageMounts ==
    /\ ~verify.mounted
    /\ verify' = [verify EXCEPT
            !.mounted = TRUE,
            !.status = IF verify.stateError # Undefined THEN "error" ELSE @,
            !.error = IF verify.stateError # Undefined THEN verify.stateError ELSE @,
            !.usernameInput = IF verify.usernameFromParams # ""
                              THEN verify.usernameFromParams ELSE @]
    /\ UNCHANGED verifyOnly

\* the input's onChange; the input is disabled while submitting
handleUsernameChange ==
    \E value \in Usernames :
        /\ verify.mounted
        /\ verify.status # "submitting"
        /\ value # verify.usernameInput
        /\ verify' = [verify EXCEPT
                !.status = "idle",
                !.error = IF verify.status # "idle" THEN Undefined ELSE @,
                !.usernameInput = value]
        /\ UNCHANGED verifyOnly

\* the Verify button's onClick; the button is rendered unless the status is
\* success and enabled when canVerify
handleVerify ==
    LET cleanUsername == trim(verify.usernameInput)
    IN  /\ verify.mounted
        /\ verify.status \notin {"success", "submitting"}
        /\ cleanUsername # ""
        /\ verify.sent < MaxConfirms
        /\ verify' = IF cleanCode(verify) = ""
                     THEN [verify EXCEPT !.error = NoCodeInLink, !.status = "error"]
                     ELSE attemptConfirm(verify, cleanUsername, cleanCode(verify))
        /\ UNCHANGED verifyOnly

\* the effect on [attemptConfirm, cleanCode, usernameInput], at any of its
\* runs that gets past its two returns
AutoTriggerEffect ==
    LET cleanUsername == trim(verify.usernameInput)
    IN  /\ verify.mounted
        /\ ~verify.autoTriggeredRef
        /\ cleanUsername # ""
        /\ cleanCode(verify) # ""
        /\ verify.sent < MaxConfirms
        /\ verify' = [attemptConfirm(verify, cleanUsername, cleanCode(verify))
                         EXCEPT !.autoTriggeredRef = TRUE, !.autoTriggers = @ + 1]
        /\ UNCHANGED verifyOnly

\* confirmAccount resolves: success, and the finally frees the ref
ConfirmResolves ==
    /\ verify.inFlight > 0
    /\ verify' = [verify EXCEPT !.inFlight = @ - 1, !.status = "success",
                                !.isSubmittingRef = FALSE]
    /\ UNCHANGED verifyOnly

\* confirmAccount rejects: the catch shows the message, the finally frees the ref
ConfirmRejects ==
    \E failure \in RequestFailures :
        /\ verify.inFlight > 0
        /\ verify' = [verify EXCEPT
                !.inFlight = @ - 1, !.status = "error",
                !.error = orElse(requestErrorMessage(failure), VerificationFailed),
                !.isSubmittingRef = FALSE]
        /\ UNCHANGED verifyOnly

----------------------------------------------------------------------------
(* Remote order resource: POST /orders, GET /orders/{id} (not part of the  *)
(* frontend: an order per idempotency key, priced by the service)          *)

OrderIdOf(n) == "order-" \o ToString(n)
ProviderOrderIdOf(n) == "rzp-order-" \o ToString(n)

\* subtotals the service may price an order at: the cart it holds for cart_id
\* is not tracked, so any quantity of the first cake stands for it
ServerSubtotals == {ServerPrice("cake-1") * q : q \in 1..MaxQty}

\* the number of the order a request addresses: the order of its key, else a new one
ServerOrderNo(orders, request) ==
    IF /\ request.idempotency_key # Undefined
       /\ \E n \in 1..Len(orders) : orders[n].idempotency_key = request.idempotency_key
    THEN CHOOSE n \in 1..Len(orders) : orders[n].idempotency_key = request.idempotency_key
    ELSE Len(orders) + 1

\* the orders of the service after POST /orders
ServerCreateOrder(orders, request, subtotal) ==
    IF ServerOrderNo(orders, request) <= Len(orders) THEN orders
    ELSE Append(orders,
            [order_id |-> OrderIdOf(Len(orders) + 1),
             idempotency_key |-> request.idempotency_key,
             customer_id |-> request.customer_id,
             currency |-> "INR",
             totals |-> [subtotal |-> subtotal, taxes |-> ServerTaxes(subtotal),
                         shipping |-> ServerShipping,
                         total |-> subtotal + ServerTaxes(subtotal) + ServerShipping],
             provider_order_id |-> ProviderOrderIdOf(Len(orders) + 1)])

\* ServerOrderCreateResponse
ServerOrderResponse(orders, request, subtotal) ==
    LET order == ServerCreateOrder(orders, request, subtotal)[ServerOrderNo(orders, request)]
    IN  [order |-> order, provider_order_id |-> order.provider_order_id]

mapOrderDetail(payload) ==
    [orderId |-> payload.order_id, currency |-> payload.currency,
     customerId |-> payload.customer_id, totals |-> mapTotals(payload.totals),
     providerOrderId |-> payload.provider_order_id,
     idempotencyKey |-> payload.idempotency_key]

\* the wire payload with the idempotency key left out
normalizeOrderPayload_NoKey(payload) ==
    [idempotency_key |-> Undefined, cart_id |-> payload.cartId,
     customer_id |-> payload.customerId, is_test |-> payload.isTest]

normalizeOrderPayload(payload) ==
    [idempotency_key |-> payload.idempotencyKey, cart_id |-> payload.cartId,
     customer_id |-> payload.customerId, is_test |-> payload.isTest]

\* what createOrder resolves with
createOrderResult(response) ==
    [order |-> mapOrderDetail(response.order),
     providerOrderId |-> response.provider_order_id]

----------------------------------------------------------------------------
(* CheckoutPage (pages/Checkout.tsx) *)

\* form values the customer may have typed
Addresses == {"", "12 Baker Street"}
Phones == {"", "+919999999999"}

AddressRequired == "Delivery address is required"
PhoneRequired == "Contact phone number is required"
CartNotReady == "Cart not ready. Please try again."
CheckoutFailed == "Checkout failed"
SdkLoadFailed == "Failed to load Razorpay SDK"
PaymentFailed == "Payment failed or was cancelled. Please try again."
SupportMessage ==
    "Payment captured, but we could not confirm the order. Please contact support."

\* descriptions a payment.failed event may carry
FailureDescriptions == {Undefined, "Payment declined by bank"}

\* a randomUUID that hands out the same value at every call
randomUUID_SameEveryCall(u) == "key-1"

\* crypto.randomUUID(): a fresh value per call, unless a test stubs it
randomUUID(u) == "key-" \o ToString(IF u.stubbed THEN 1 ELSE u.count + 1)

\* the checks at the top of handleSubmit with the phone check left out
validateCheckout_NoPhoneCheck(address, contactPhone) ==
    IF address = "" THEN Some(AddressRequired) ELSE None

\* the checks at the top of handleSubmit: the message set, if one fails
validateCheckout(address, contactPhone) ==
    IF address = "" THEN Some(AddressRequired)
    ELSE IF contactPhone = "" THEN Some(PhoneRequired)
    ELSE None

\* the amount charged read from the cart on the page
amountPaise_FromCart(order) ==
    LET RECURSIVE Sum(_)
        Sum(items) == IF items = <<>> THEN 0
                      ELSE Head(items).price * Head(items).quantity + Sum(Tail(items))
    IN  Sum(cart.items) * 100

\* Math.round((order.totals.total || 0) * 100); totals are whole rupees here
amountPaise(order) == order.totals.total * 100

\* a handler catch that shows the support message whatever the error says
confirmErrorMessage_AlwaysSupport(failure) == SupportMessage

\* the message the payment handler's catch shows
confirmErrorMessage(failure) == orElse(requestErrorMessage(failure), SupportMessage)

\* setError / setLoading reach the page while it is mounted
setPage(error, loading) ==
    IF page.route = "/checkout"
    THEN page' = [page EXCEPT !.error = error, !.loading = loading]
    ELSE UNCHANGED page

CallerOf(a) == "submit-" \o ToString(a)

NewAttempt(cartId) ==
    [pc |-> "syncing_cart", cartId |-> cartId, key |-> Undefined, request |-> None,
     headers |-> NoHeaders,
     orderId |-> Undefined, widget |-> None, failedStep |-> "none"]

\* handleSubmit(event) up to `await syncCart(...)`; the form is rendered only
\* for a cart with items, its button is disabled while loading
handleSubmit(address, contactPhone) ==
    LET invalid == validateCheckout(address, contactPhone)
    IN  /\ page.route = "/checkout"
        /\ cart.items # <<>>
        /\ ~page.loading
        /\ IF invalid # None
           THEN /\ page' = [page EXCEPT !.error = invalid[1]]
                /\ UNCHANGED <<cartVars, attempts>>
           ELSE /\ Len(attempts) < MaxAttempts
                /\ page' = [page EXCEPT !.error = Undefined, !.loading = TRUE]
                /\ attempts' = Append(attempts, NewAttempt(cart.cartId))
                /\ syncCart(CallerOf(Len(attempts) + 1), CustomerId)
                /\ UNCHANGED selQty
        /\ UNCHANGED <<server, uuid, authVars, nav, checkoutEffect, verify>>

Submit == \E address \in Addresses, contactPhone \in Phones :
              handleSubmit(address, contactPhone)

\* handleSubmit of attempt `a` from syncCart's result to `await createOrder(...)`
submitAfterSync(a, snapshotCartId) ==
    LET effectiveCartId == IF snapshotCartId # Undefined THEN snapshotCartId
                           ELSE attempts[a].cartId
    IN  IF effectiveCartId \in {Undefined, ""}
        THEN /\ attempts' = [attempts EXCEPT ![a].pc = "error",
                                             ![a].failedStep = "syncing_cart"]
             /\ setPage(orElse(CartNotReady, CheckoutFailed), FALSE)
             /\ UNCHANGED uuid
        ELSE /\ attempts' = [attempts EXCEPT
                   ![a].pc = "creating_order",
                   ![a].key = randomUUID(uuid),
                   ![a].headers = requestHeaders(NoHeaders, FALSE, authToken),
                   ![a].request = Some(normalizeOrderPayload(
                       [cartId |-> effectiveCartId, customerId |-> CustomerId,
                        idempotencyKey |-> randomUUID(uuid), isTest |-> TRUE]))]
             /\ uuid' = [uuid EXCEPT !.count = @ + 1]
             /\ UNCHANGED page

\* the syncCart call of a submission resolves with a snapshot
SubmitSyncResolves ==
    \E call \in pendingSyncs : \E a \in 1..Len(attempts) :
      \E soldOut \in SoldOutChoices, withName \in BOOLEAN :
        /\ call.caller = CallerOf(a)
        /\ syncCartResolved(call, soldOut, withName)
        /\ submitAfterSync(a, CartIdOf(ServerCartNo(server.cartCount, call.request)))
        /\ UNCHANGED <<selQty, authVars, nav, checkoutEffect, verify>>

\* the syncCart call of a submission fails: it resolves with undefined
SubmitSyncRejects ==
    \E call \in pendingSyncs : \E a \in 1..Len(attempts) :
        /\ call.caller = CallerOf(a)
        /\ syncCartRejected(call)
        /\ submitAfterSync(a, Undefined)
        /\ UNCHANGED <<selQty, server, authVars, nav, checkoutEffect, verify>>

\* POST /orders answers; openRazorpayCheckout loads the SDK and opens the
\* widget, or fails to load it; handleSubmit's finally runs
createOrderResolves(a, subtotal, sdkLoads) ==
    LET request == attempts[a].request[1]
        result == createOrderResult(ServerOrderResponse(server.orders, request, subtotal))
    IN  /\ attempts[a].pc = "creating_order"
        /\ server' = [server EXCEPT !.orders = ServerCreateOrder(@, request, subtotal)]
        /\ IF sdkLoads
           THEN /\ attempts' = [attempts EXCEPT
                      ![a].pc = "awaiting_payment",
                      ![a].request = None, ![a].headers = NoHeaders,
                      ![a].orderId = result.order.orderId,
                      ![a].widget = Some([amount |-> amountPaise(result.order),
                                          order_id |-> result.providerOrderId])]
                /\ setPage(page.error, FALSE)
           ELSE /\ attempts' = [attempts EXCEPT
                      ![a].pc = "error", ![a].failedStep = "awaiting_payment",
                      ![a].request = None, ![a].headers = NoHeaders,
                      ![a].orderId = result.order.orderId]
                /\ setPage(orElse(SdkLoadFailed, CheckoutFailed), FALSE)
        /\ UNCHANGED <<cartVars, uuid, authVars, nav, checkoutEffect, verify>>

OrderCreated ==
    \E a \in 1..Len(attempts) : \E subtotal \in ServerSubtotals, sdkLoads \in BOOLEAN :
        createOrderResolves(a, subtotal, sdkLoads)

\* POST /orders fails: handleSubmit's catch and finally
createOrderRejects(a, failure) ==
    /\ attempts[a].pc = "creating_order"
    /\ attempts' = [attempts EXCEPT ![a].pc = "error", ![a].request = None,
                                    ![a].headers = NoHeaders,
                                    ![a].failedStep = "creating_order"]
    /\ setPage(orElse(requestErrorMessage(failure), CheckoutFailed), FALSE)
    /\ UNCHANGED <<cartVars, server, uuid, authVars, nav, checkoutEffect, verify>>

OrderRejected ==
    \E a \in 1..Len(attempts) : \E failure \in RequestFailures :
        createOrderRejects(a, failure)

\* the widget calls `handler`: the payment went through; up to `await fetchOrder`
paymentHandler(a) ==
    /\ attempts[a].pc = "awaiting_payment"
    /\ attempts' = [attempts EXCEPT ![a].pc = "confirming", ![a].widget = None]
    /\ UNCHANGED <<cartVars, server, page, uuid, authVars, nav, checkoutEffect, verify>>

PaymentCaptured == \E a \in 1..Len(attempts) : paymentHandler(a)

\* a payment.failed listener that also empties the cart
paymentFailed_ClearsCart(a, description) ==
    /\ attempts[a].pc = "awaiting_payment"
    /\ attempts' = [attempts EXCEPT ![a].pc = "error", ![a].widget = None,
                                    ![a].failedStep = "awaiting_payment"]
    /\ setPage(orElse(description, PaymentFailed), FALSE)
    /\ dispatch([type |-> "CLEAR", payload |-> NoPayload])
    /\ UNCHANGED <<selQty, pendingSyncs, lastSync, clearedSince, server, uuid,
                   authVars, nav, checkoutEffect, verify>>

\* the widget emits payment.failed
paymentFailed(a, description) ==
    /\ attempts[a].pc = "awaiting_payment"
    /\ attempts' = [attempts EXCEPT ![a].pc = "error", ![a].widget = None,
                                    ![a].failedStep = "awaiting_payment"]
    /\ setPage(orElse(description, PaymentFailed), FALSE)
    /\ UNCHANGED <<cartVars, server, uuid, authVars, nav, checkoutEffect, verify>>

PaymentFails ==
    \E a \in 1..Len(attempts) : \E description \in FailureDescriptions :
        paymentFailed(a, description)

\* GET /orders/{id} answers: clearCart(), navigate("/order-success"), finally
fetchOrderResolves(a) ==
    /\ attempts[a].pc = "confirming"
    /\ attempts' = [attempts EXCEPT ![a].pc = "done"]
    /\ dispatch([type |-> "CLEAR", payload |-> NoPayload])
    /\ page' = [page EXCEPT !.route = "/order-success",
                            !.loading = IF page.route = "/checkout" THEN FALSE ELSE @]
    /\ clearedSince' = TRUE
    /\ UNCHANGED <<selQty, pendingSyncs, lastSync, server, uuid, authVars, nav, checkoutEffect, verify>>

OrderConfirmed == \E a \in 1..Len(attempts) : fetchOrderResolves(a)

\* GET /orders/{id} fails: the handler's catch and finally
fetchOrderRejects(a, failure) ==
    /\ attempts[a].pc = "confirming"
    /\ attempts' = [attempts EXCEPT ![a].pc = "error", ![a].failedStep = "confirming"]
    /\ setPage(confirmErrorMessage(failure), FALSE)
    /\ UNCHANGED <<cartVars, server, uuid, authVars, nav, checkoutEffect, verify>>

ConfirmFails ==
    \E a \in 1..Len(attempts) : \E failure \in RequestFailures :
        fetchOrderRejects(a, failure)

----------------------------------------------------------------------------
(* Specifications *)

InitCheckout ==
    /\ page = [error |-> Undefined, loading |-> FALSE, route |-> "/checkout"]
    /\ attempts = <<>>
    /\ uuid = [stubbed |-> FALSE, count |-> 0]

Init == InitCart /\ InitAuth /\ InitCheckout /\ InitNav /\ InitCheckoutEffect
        /\ InitVerify

\* the cart operations alone
NextCartOps == SelectQuantity \/ addItem \/ removeItem \/ updateQuantity
SpecCartOps == Init /\ [][NextCartOps]_vars

\* the cart operations and page reloads
NextReload == SelectQuantity \/ addItem \/ removeItem \/ updateQuantity \/ Reload
SpecReload == Init /\ [][NextReload]_vars

\* the cart context called with any id, over a cart that is synchronised
NextCartApi ==
    \/ addItem \/ RemoveAnyItem \/ EffectSyncCart \/ UpsertResolves \/ UpsertRejects
SpecCartApi == Init /\ [][NextCartApi]_vars

\* the cart store with its synchronisation
NextCart ==
    \/ addItem \/ removeItem \/ updateQuantity \/ clearCart
    \/ EffectSyncCart \/ UpsertResolves \/ UpsertRejects
SpecCart == Init /\ [][NextCart]_vars

\* the session bridge, and the requests issued under it
NextAuth ==
    \/ OidcChanges \/ AuthEffect \/ withLoadingStart \/ withLoadingEnd
    \/ refreshStart \/ signinSilentResolves \/ signinSilentRejects
    \/ removeUserResolves \/ IssueRequest
SpecAuth == Init /\ [][NextAuth]_vars

\* the HTTP client under a session that changes
NextHttp ==
    \/ OidcChanges \/ AuthEffect
    \/ IssueRequest \/ ResponseArrives \/ FetchRejects
SpecHttp == Init /\ [][NextHttp]_vars

\* the sign-in redirect, its callback and the session that results
NextSignin ==
    \/ Navigate \/ signIn \/ signUp \/ IdpRedirectsBack \/ CallbackTimerFires
    \/ SigninCallbackResolves \/ SigninCallbackRejects \/ AuthEffect
SpecSignin == Init /\ [][NextSignin]_vars

\* submissions of the checkout page for a cart filled beforehand (the page's
\* effect sync is part of SpecCart); a test may have stubbed crypto.randomUUID
CheckoutCarts ==
    {<<handleAddItem("cake-1", MaxQty)>>,
     <<handleAddItem("cake-1", 1), handleAddItem("cake-2", 1)>>}
InitCheckoutPage ==
    /\ \E items \in CheckoutCarts :
          /\ cart = [initialState EXCEPT !.items = items]
          /\ lastAction = [type |-> "ADD", payload |-> items[Len(items)]]
    /\ selQty = 1
    /\ pendingSyncs = {}
    /\ lastSync = [kind |-> "none", returned |-> Undefined, threw |-> FALSE]
    /\ clearedSince = FALSE
    /\ storage = Some(stringifyCart(cart))
    /\ server = [cartCount |-> 0, orders |-> <<>>]
    /\ InitAuth
    /\ InitNav
    /\ InitCheckoutEffect
    /\ InitVerify
    /\ page = [error |-> Undefined, loading |-> FALSE, route |-> "/checkout"]
    /\ attempts = <<>>
    /\ uuid \in {[stubbed |-> b, count |-> 0] : b \in BOOLEAN}
NextCheckout ==
    \/ Submit \/ SubmitSyncResolves \/ SubmitSyncRejects
    \/ OrderCreated \/ OrderRejected \/ PaymentCaptured \/ PaymentFails
    \/ OrderConfirmed \/ ConfirmFails
SpecCheckout == InitCheckoutPage /\ [][NextCheckout]_vars

\* one visit of the account-verification page
NextVerify ==
    \/ VerifyPageMounts \/ handleUsernameChange \/ handleVerify
    \/ AutoTriggerEffect \/ ConfirmResolves \/ ConfirmRejects
InitVerifyPage ==
    /\ InitCart /\ InitAuth /\ InitCheckout /\ InitNav /\ InitCheckoutEffect
    /\ VisitVerify
SpecVerify == InitVerifyPage /\ [][NextVerify]_vars

\* the checkout page left mounted, with no action of the customer
NextCheckoutMount ==
    CheckoutEffectRuns \/ CheckoutUpsertResolves \/ CheckoutUpsertRejects
SpecCheckoutMount == InitCheckoutPage /\ [][NextCheckoutMount]_vars

\* the syncs of the checkout page: those of its effect, at the mount and at
\* any re-run, and the one of a submission
NextCheckoutSyncs ==
    \/ EffectSyncCart \/ UpsertResolves \/ UpsertRejects
    \/ Submit \/ SubmitSyncResolves \/ SubmitSyncRejects
SpecCheckoutSyncs == InitCheckoutPage /\ [][NextCheckoutSyncs]_vars

----------------------------------------------------------------------------
(* Properties of the cart store *)

LinesOf(items, id) == {i \in 1..Len(items) : items[i].id = id}

ClientFieldsEqual(a, b) ==
    /\ a.imageUrl = b.imageUrl
    /\ a.notes = b.notes
    /\ a.addons = b.addons

SameCartData(a, b) ==
    /\ a.items = b.items
    /\ a.cartId = b.cartId
    /\ a.cartToken = b.cartToken
    /\ a.totals = b.totals

\* C3: whatever addItem, removeItem and updateQuantity calls were made from the
\* empty cart, no line of the cart has a quantity less than or equal to 0.
C3_QuantitiesPositive ==
    \A i \in 1..Len(cart.items) : cart.items[i].quantity > 0

\* a quantity was just set to 0 and the line is gone
C3_Witness ==
    /\ lastAction.type = "UPDATE_QUANTITY"
    /\ lastAction.payload.quantity = 0
    /\ ~HasId(cart.items, lastAction.payload.id)

\* C5: addItem for an id already in the cart leaves exactly one line for that
\* id, its quantity the sum of the old quantity and the added one (so q1 then
\* q2 gives q1 + q2), the other lines as they were; addItem for an id not in
\* the cart appends one line.
C5_AddItemMerges ==
    [][addItem =>
        LET item == lastAction'.payload
        IN  IF HasId(cart.items, item.id)
            THEN /\ Len(cart'.items) = Len(cart.items)
                 /\ Cardinality(LinesOf(cart'.items, item.id)) = 1
                 /\ \A i \in 1..Len(cart.items) :
                       IF cart.items[i].id = item.id
                       THEN /\ cart'.items[i].id = item.id
                            /\ cart'.items[i].quantity =
                                    cart.items[i].quantity + item.quantity
                       ELSE cart'.items[i] = cart.items[i]
            ELSE /\ cart'.items = cart.items \o <<item>>
                 /\ Cardinality(LinesOf(cart'.items, item.id)) = 1]_vars

\* the second addItem of an id: one line, holding more than was just added
C5_Witness ==
    /\ lastAction.type = "ADD"
    /\ Cardinality(LinesOf(cart.items, lastAction.payload.id)) = 1
    /\ FindById(cart.items, lastAction.payload.id).quantity
           = lastAction.payload.quantity + 1
    /\ Len(cart.items) = 2

\* C6: syncCart invoked while the cart has no items issues no request, returns
\* undefined, and leaves cartId and cartToken undefined.
C6_EmptySyncNoRequest ==
    [][(EffectSyncCart /\ cart.items = <<>>) =>
        /\ pendingSyncs' = pendingSyncs
        /\ lastSync'.kind = "empty"
        /\ lastSync'.returned = Undefined
        /\ ~lastSync'.threw
        /\ cart'.cartId = Undefined
        /\ cart'.cartToken = Undefined]_vars

\* an empty cart was synced after the service had given it a cart
C6_Witness ==
    /\ lastSync.kind = "empty"
    /\ lastAction.type = "SYNCING"
    /\ cart.items = <<>>
    /\ cart.cartId = Undefined
    /\ server.cartCount > 0
    /\ pendingSyncs = {}

\* C7: when a syncCart request resolves, every item the call closed over whose
\* id is in the snapshot is in the cart afterwards with the imageUrl, notes and
\* addons it had when the call was made; this covers items that already carry
\* the fields of an earlier sync.
C7_ClientFieldsSurvive ==
    [][\A call \in pendingSyncs : \A soldOut \in SoldOutChoices, withName \in BOOLEAN :
       (pendingSyncs' = pendingSyncs \ {call} /\ lastSync'.kind = "ok") =>
        \A snapshot \in {mapCart(ServerCartResponse(server.cartCount, call.request,
                                                    soldOut, withName))} :
            cart' = syncCartApply(cart, snapshot, call.items) =>
                \A i \in 1..Len(call.items) :
                    (\E k \in 1..Len(snapshot.items) :
                        snapshot.items[k].cakeId = call.items[i].id)
                    => /\ HasId(cart'.items, call.items[i].id)
                       /\ \A j \in LinesOf(cart'.items, call.items[i].id) :
                             ClientFieldsEqual(cart'.items[j], call.items[i])]_vars

\* a line that went through a sync carries the server's cartItemId and its image
C7_Witness ==
    /\ lastSync.kind = "ok"
    /\ lastAction.type = "SYNCING"
    /\ pendingSyncs = {}
    /\ \E i \in 1..Len(cart.items) :
          /\ cart.items[i].cartItemId # Undefined
          /\ cart.items[i].imageUrl # Undefined

\* C8: a syncCart whose request fails leaves items, cartId, cartToken and
\* totals as they were (when the call started and when the failure arrived),
\* returns undefined without throwing, and ends with syncing false.
C8_FailedSyncKeepsState ==
    [][/\ (EffectSyncCart /\ cart.items # <<>>) => SameCartData(cart', cart)
       /\ \A call \in pendingSyncs :
            (/\ pendingSyncs' = pendingSyncs \ {call}
             /\ syncCartRejected(call)) =>
                /\ SameCartData(cart', cart)
                /\ cart'.syncing = FALSE
                /\ lastSync'.kind = "failed"
                /\ lastSync'.returned = Undefined
                /\ ~lastSync'.threw]_vars

\* a sync failed on a cart that keeps the identifiers and totals of an earlier one
C8_Witness ==
    /\ lastSync.kind = "failed"
    /\ lastAction.type = "SYNCING"
    /\ pendingSyncs = {}
    /\ cart.items # <<>>
    /\ cart.cartId # Undefined
    /\ cart.totals # None
    /\ ~cart.syncing

\* C11: clearCart leaves no items and no cartId, cartToken or totals, and the
\* first upsertCart request sent after a clearCart carries no cart token.
C11_ClearThenSyncSendsNoToken ==
    [][/\ clearCart =>
            /\ cart'.items = <<>>
            /\ cart'.cartId = Undefined
            /\ cart'.cartToken = Undefined
            /\ cart'.totals = None
       /\ clearedSince =>
            \A call \in pendingSyncs' \ pendingSyncs :
                call.request.cart_token = Undefined]_vars

\* C14: removeItem(id) for an id that no line has leaves items, cartId,
\* cartToken and totals as they were.
C14_RemoveAbsentIsNoOp ==
    [][\A id \in Cakes :
        (~HasId(cart.items, id) /\ removeItemOf(id)) => SameCartData(cart', cart)]_vars

\* C12: a page reload, once the restore has been applied, leaves items, cartId,
\* cartToken and totals as they were before it, with and without the double
\* effect run of StrictMode.
C12_ReloadKeepsCart ==
    [][Reload => SameCartData(cart', cart)]_vars

\* the lines of the cart are the snapshot's lines, in order
LinesAreSnapshots(items, snapshot) ==
    /\ Len(items) = Len(snapshot.items)
    /\ \A j \in 1..Len(items) :
          /\ items[j].id = snapshot.items[j].cakeId
          /\ items[j].quantity = snapshot.items[j].quantity
          /\ items[j].price = snapshot.items[j].priceEach
          /\ items[j].cartItemId = snapshot.items[j].cartItemId

\* C25: when a syncCart request resolves and the cart was not edited while it
\* was in flight, the cart has the snapshot's cartId, cartToken and totals,
\* and its lines are the snapshot's lines in order (id, quantity, price and
\* cartItemId from the server); local lines absent from the snapshot are gone.
C25_SyncAppliesSnapshot ==
    [][\A call \in pendingSyncs :
        \A soldOut \in SoldOutChoices, withName \in BOOLEAN :
          (/\ call.items = cart.items
           /\ syncCartResolved(call, soldOut, withName)) =>
             LET snapshot == mapCart(ServerCartResponse(
                                 server.cartCount, call.request, soldOut, withName))
             IN  /\ cart'.cartId = snapshot.cartId
                 /\ cart'.cartToken = snapshot.cartToken
                 /\ cart'.totals = Some(snapshot.totals)
                 /\ LinesAreSnapshots(cart'.items, snapshot)
                 /\ \A id \in soldOut : ~HasId(cart'.items, id)]_vars

\* a synced cart of one line at the server's price (the second cake costs
\* 500 in the catalogue and 600 at the service)
C25_Witness ==
    /\ lastSync.kind = "ok"
    /\ pendingSyncs = {}
    /\ cart.cartId = "cart-1"
    /\ cart.cartToken = "tok-1"
    /\ cart.totals # None
    /\ Len(cart.items) = 1
    /\ cart.items[1].cartItemId = "ci-cake-2"
    /\ cart.items[1].price = 600

RECURSIVE SumOfLines(_)
SumOfLines(items) ==
    IF items = <<>> THEN 0
    ELSE Head(items).price * Head(items).quantity + SumOfLines(Tail(items))

\* C26: every addItem, removeItem and updateQuantity leaves totals undefined
\* (they are undefined while the action dispatched last is one of these),
\* and in every reachable state where totals is defined they are the totals
\* of the lines the cart holds: lines of a snapshot, whose subtotal is the
\* sum over these very lines.
C26_TotalsBelongToItems ==
    /\ cart.totals # None =>
          /\ \A j \in 1..Len(cart.items) : cart.items[j].cartItemId # Undefined
          /\ cart.totals[1].subtotal = SumOfLines(cart.items)
    /\ lastAction.type \in {"ADD", "REMOVE", "UPDATE_QUANTITY"} =>
          cart.totals = None

\* an edit after a sync: the identifiers stay, the totals are gone
C26_Witness ==
    /\ lastAction.type = "REMOVE"
    /\ cart.cartId # Undefined
    /\ cart.items # <<>>
    /\ cart.totals = None

\* C27: with a non-empty cart and a cart service that always succeeds, the
\* sync of the mounted checkout page quiesces: a response that changes
\* neither the lines nor the token of the cart does not make the effect run
\* again, so only finitely many upsert requests are issued.
C27_MountSyncQuiesces ==
    [][(/\ CheckoutUpsertResolves
        /\ cart'.items = cart.items
        /\ cart'.cartToken = cart.cartToken) => ~checkoutEffect'.due]_vars

\* C29: the syncing flag is true in every state in which a syncCart request
\* is in flight, also when two syncs overlap, and false when none is.
C29_SyncingMeansInFlight == cart.syncing <=> pendingSyncs # {}

\* C28: an edit made while a syncCart request is in flight is not lost when
\* the response is applied: a line added since the request was built is
\* still there, a line removed since does not come back.
C28_EditDuringSyncSurvives ==
    [][\A call \in pendingSyncs :
        (pendingSyncs' = pendingSyncs \ {call} /\ lastSync'.kind = "ok"
            /\ lastSync' # lastSync) =>
          \A id \in Cakes :
            /\ (HasId(cart.items, id) /\ ~HasId(call.items, id)) =>
                    HasId(cart'.items, id)
            /\ (~HasId(cart.items, id) /\ HasId(call.items, id)) =>
                    ~HasId(cart'.items, id)]_vars

----------------------------------------------------------------------------
(* Properties of the checkout page *)

OrderOf(orderId) ==
    server.orders[CHOOSE n \in 1..Len(server.orders) : server.orders[n].order_id = orderId]

RECURSIVE LocalSubtotal(_)
LocalSubtotal(items) ==
    IF items = <<>> THEN 0
    ELSE Head(items).price * Head(items).quantity + LocalSubtotal(Tail(items))

\* C1: the amount in the options of every payment widget an attempt opened is
\* the total the service computed for that attempt's order, times 100.
C1_AmountIsServerTotal ==
    \A a \in 1..Len(attempts) :
        attempts[a].widget # None =>
            attempts[a].widget[1].amount = OrderOf(attempts[a].orderId).totals.total * 100

\* the widget is open for 215000 while the cart on the page adds up to 2000
C1_Witness ==
    \E a \in 1..Len(attempts) :
        /\ attempts[a].pc = "awaiting_payment"
        /\ attempts[a].widget # None
        /\ attempts[a].widget[1].amount = 215000
        /\ LocalSubtotal(cart.items) = 2000

\* C2: submissions that used one idempotency key got one order: the service
\* holds no two orders with the same key, and any two attempts with the same
\* key that got an order got the same order.
C2_SameKeySameOrder ==
    /\ \A a, b \in 1..Len(attempts) :
          (/\ attempts[a].orderId # Undefined
           /\ attempts[b].orderId # Undefined
           /\ attempts[a].key = attempts[b].key) =>
                attempts[a].orderId = attempts[b].orderId
    /\ \A a \in 1..Len(attempts) :
          attempts[a].orderId # Undefined =>
              OrderOf(attempts[a].orderId).idempotency_key = attempts[a].key

\* two submissions with the stubbed key both have an order, the service has one
C2_Witness ==
    /\ uuid.stubbed
    /\ Len(attempts) = 2
    /\ attempts[1].orderId # Undefined
    /\ attempts[2].orderId = attempts[1].orderId
    /\ attempts[1].key = attempts[2].key
    /\ Len(server.orders) = 1

\* C13: every POST /orders request in flight has an Idempotency-Key header
\* equal to the idempotency_key of its body.
C13_IdempotencyKeyHeader ==
    \A a \in 1..Len(attempts) :
        attempts[a].request # None =>
            attempts[a].headers.IdempotencyKey = attempts[a].request[1].idempotency_key

\* C4: when the order fetch made by the payment handler fails, the attempt
\* ends in error with the support message shown, the cart keeps its items,
\* cartId and cartToken, and the page stays on the checkout route.
C4_ConfirmFailureShowsSupport ==
    [][\A a \in 1..Len(attempts) : \A failure \in RequestFailures :
        (attempts[a].pc = "confirming" /\ fetchOrderRejects(a, failure)) =>
            /\ attempts'[a].pc = "error"
            /\ page.route = "/checkout" => page'.error = SupportMessage
            /\ cart'.items = cart.items
            /\ cart'.cartId = cart.cartId
            /\ cart'.cartToken = cart.cartToken
            /\ page'.route = page.route]_vars

\* C9: a submission with an empty address or an empty phone shows the
\* validation message, starts no attempt, and sends nothing: no cart sync is
\* put in flight and the service is not reached.
C9_InvalidSubmitSendsNothing ==
    [][\A address \in Addresses, contactPhone \in Phones :
        ((address = "" \/ contactPhone = "") /\ handleSubmit(address, contactPhone)) =>
            /\ page'.error = IF address = "" THEN AddressRequired ELSE PhoneRequired
            /\ ~page'.loading
            /\ attempts' = attempts
            /\ pendingSyncs' = pendingSyncs
            /\ server' = server
            /\ cart' = cart]_vars

\* the phone message is shown, nothing was sent
C9_Witness ==
    /\ page.error = PhoneRequired
    /\ ~page.loading
    /\ cart.items # <<>>
    /\ attempts = <<>>
    /\ pendingSyncs = {}
    /\ server = [cartCount |-> 0, orders |-> <<>>]

\* the step attempt `a` is at before and after a transition; an attempt that
\* has not passed validation yet is at "validating"
StepBefore(a) == IF a <= Len(attempts) THEN attempts[a].pc ELSE "validating"

\* attempt `a` enters `step` in this transition
Enters(a, step) == attempts'[a].pc = step /\ StepBefore(a) # step

\* C20: within one checkout attempt the order-creation call is issued only
\* when the attempt's cart sync has completed and succeeded, the payment
\* widget is opened only after order creation succeeded, the order is
\* re-fetched only after the widget's success callback, the cart is cleared
\* and the order handed over only when the re-fetch has succeeded, and an
\* attempt that failed at one step reaches no later step.
C20_StepsInOrder ==
    [][/\ \A a \in 1..Len(attempts') :
            /\ Enters(a, "syncing_cart") => StepBefore(a) = "validating"
            /\ Enters(a, "creating_order") =>
                    /\ StepBefore(a) = "syncing_cart"
                    /\ \A call \in pendingSyncs' : call.caller # CallerOf(a)
                    /\ lastSync'.kind = "ok"
            /\ Enters(a, "awaiting_payment") =>
                    /\ StepBefore(a) = "creating_order"
                    /\ attempts'[a].widget # None
                    /\ \E i \in 1..Len(server'.orders) :
                           server'.orders[i].order_id = attempts'[a].orderId
            /\ Enters(a, "confirming") => StepBefore(a) = "awaiting_payment"
            /\ Enters(a, "done") =>
                    /\ StepBefore(a) = "confirming"
                    /\ cart'.items = <<>>
                    /\ page'.route = "/order-success"
            /\ StepBefore(a) = "error" => attempts'[a].pc = "error"
       /\ (\A a \in 1..Len(attempts') : ~Enters(a, "done")) =>
            /\ page'.route = page.route
            /\ lastAction'.type = "CLEAR" => lastAction' = lastAction]_vars

\* C21: a network failure of the cart re-sync of a checkout attempt ends the
\* attempt in the error state with no order-creation call, also when a
\* cartId of an earlier sync is still in the store.
C21_FailedResyncEndsAttempt ==
    [][\A a \in 1..Len(attempts) :
        (/\ attempts[a].pc = "syncing_cart"
         /\ attempts'[a].pc # "syncing_cart"
         /\ lastSync'.kind = "failed") =>
            /\ attempts'[a].pc = "error"
            /\ attempts'[a].request = None]_vars

\* the steps of an attempt that is past validation and has not ended
InFlightSteps == {"syncing_cart", "creating_order", "awaiting_payment", "confirming"}

\* C22: at any time at most one checkout attempt is past validation and not
\* yet done or in error.
C22_OneAttemptInFlight ==
    Cardinality({a \in 1..Len(attempts) : attempts[a].pc \in InFlightSteps}) <= 1

\* C23: every attempt that reaches order creation uses a key generated for
\* it by crypto.randomUUID; no two attempts, a resubmission after an error
\* included, send the same key.
C23_FreshKeyPerAttempt ==
    ~uuid.stubbed =>
        \A a, b \in 1..Len(attempts) :
            (a # b /\ attempts[a].key # Undefined /\ attempts[b].key # Undefined) =>
                attempts[a].key # attempts[b].key

\* a resubmission after an attempt that failed has sent its own key
C23_Witness ==
    /\ ~uuid.stubbed
    /\ Len(attempts) = 2
    /\ attempts[1].pc = "error"
    /\ attempts[1].key = "key-1"
    /\ attempts[2].pc = "creating_order"
    /\ attempts[2].request # None
    /\ attempts[2].request[1].idempotency_key = "key-2"

----------------------------------------------------------------------------
(* Properties of the account-verification page *)

\* C30: at most one confirmAccount request is in flight at any time, the
\* automatic confirmation is triggered at most once per visit, a verify
\* attempt started while a request is pending sends nothing, and when an
\* attempt has finished the next one is not held back.
C30_OneConfirmAtATime ==
    /\ verify.inFlight <= 1
    /\ verify.autoTriggers <= 1
    /\ verify.isSubmittingRef <=> verify.inFlight = 1
    /\ [][/\ (verify.inFlight > 0 /\ (handleVerify \/ AutoTriggerEffect)) =>
                verify'.sent = verify.sent
          /\ (ConfirmResolves \/ ConfirmRejects) =>
                attemptConfirm(verify', "ann", "123456").sent = verify.sent + 1]_vars

\* after the automatic confirmation failed, a second attempt is under way
C30_Witness ==
    /\ verify.autoTriggers = 1
    /\ verify.sent = 2
    /\ verify.inFlight = 1
    /\ verify.status = "submitting"

----------------------------------------------------------------------------
(* Properties of the session bridge *)

\* C15: whenever the session is authenticated it has tokens with a non-empty
\* accessToken and a user.
C15_AuthenticatedHasToken ==
    auth.isAuthenticated =>
        /\ auth.tokens # None
        /\ auth.tokens[1].accessToken \notin {"", Undefined}
        /\ auth.user # None

\* authenticated by a renewal, although the library also offered unusable users
C15_Witness ==
    /\ auth.isAuthenticated
    /\ auth.tokens # None
    /\ auth.tokens[1].accessToken = "at-2"
    /\ lastRefresh.outcome = "renewed"

\* the bearer token is the session's accessToken, or none without a session
TokenMatchesSession ==
    IF auth.isAuthenticated
    THEN auth.tokens # None /\ authToken = auth.tokens[1].accessToken
    ELSE authToken = Undefined

\* C16: at every point the HTTP client's bearer token is the accessToken of
\* the authenticated session and is not set when the session is
\* unauthenticated, and every request not marked skipAuth is issued with the
\* token of the session as it is then, never that of an earlier one.
C16_BearerFollowsSession ==
    /\ TokenMatchesSession
    /\ [][/\ TokenMatchesSession'
          /\ (IssueRequest /\ ~lastCall'.skipAuth) =>
                lastCall'.headers.Authorization =
                    IF auth.isAuthenticated
                    THEN "Bearer " \o auth.tokens[1].accessToken
                    ELSE lastCall'.optionHeaders.Authorization]_vars

\* a request went out with the token of the renewed session
C16_Witness ==
    /\ lastRefresh.outcome = "renewed"
    /\ auth.isAuthenticated
    /\ authToken = "at-2"
    /\ lastCall.state = "sent"
    /\ ~lastCall.skipAuth
    /\ lastCall.headers.Authorization = "Bearer at-2"

\* the handling of a successful callback has finished: the user is loaded,
\* onSigninCallback has run, AuthCallbackPage's timer has fired, and the
\* visitor has not navigated since
SigninFinished ==
    /\ nav.via \in {"signIn", "signUp"}
    /\ nav.stage = "callback"
    /\ nav.signinCallback = "done"
    /\ nav.timer = Undefined

\* C17: signIn or signUp started at location P, followed by a successful
\* callback of the identity provider, leaves the application showing P once
\* the handling of the callback has finished.
C17_ReturnsToStartPath ==
    SigninFinished => nav.router = nav.startedAt

\* C18: a request issued without skipAuth while a token is set carries
\* Authorization: Bearer <the token set when it is issued>; with skipAuth, or
\* with no token set, the wrapper leaves the Authorization header as the
\* caller gave it.
C18_BearerHeader ==
    [][IssueRequest =>
        IF ~lastCall'.skipAuth /\ authToken \notin {Undefined, ""}
        THEN lastCall'.headers.Authorization = "Bearer " \o authToken
        ELSE lastCall'.headers.Authorization =
                 lastCall'.optionHeaders.Authorization]_vars

\* a request in flight carries the token set when it was issued, which has
\* been replaced since
C18_Witness ==
    /\ lastCall.state = "sent"
    /\ ~lastCall.skipAuth
    /\ lastCall.headers.Authorization = "Bearer at-1"
    /\ authToken = "at-2"

\* C19: a response with a status outside 200..299 makes request() throw an
\* error whose status is the response's, whose data is the parsed body and
\* whose message is the body's message when it has one; a response with a
\* status in 200..299 makes it return the parsed body.
C19_ErrorsCarryStatusAndData ==
    [][\A response \in Responses :
        (lastCall.state = "sent" /\ responseArrives(response)) =>
            LET o == lastCall'.outcome
                data == parseResponse(response.text)
            IN  IF response.status \in 200..299
                THEN o.kind = "returns" /\ o.data = data
                ELSE /\ o.kind = "throws"
                     /\ o.status = response.status
                     /\ o.data = data
                     /\ data.message \notin {Undefined, ""} =>
                            o.message = data.message]_vars

\* a 404 with a JSON body was thrown with the body's message
C19_Witness ==
    /\ lastCall.state = "settled"
    /\ lastCall.outcome.kind = "throws"
    /\ lastCall.outcome.status = 404
    /\ lastCall.outcome.data.type = "object"
    /\ lastCall.outcome.message = "Order not found"

====
